---- MODULE Spec2Model ----
(***************************************************************************)
(* Playback engine of vgm_converter: VgmFile (src/src/vgm_file.cpp).       *)
(* The engine opens a VGM or NSF byte image, walks the VGM command stream  *)
(* (nextCommand) or calls the NSF play routine, pulls one chip sample per  *)
(* 44.1 kHz tick (interpolateSample) and hands frames to the caller at the *)
(* host rate (decodeVgmPcm / decodeNfsPcm).                                *)
(*                                                                         *)
(* Pointers are byte offsets into the image m_rawData refers to.  A read   *)
(* outside the image is undefined behaviour: the model lets it either      *)
(* fault or deliver any byte of OobBytes.                                  *)
(***************************************************************************)
EXTENDS Integers, Sequences, FiniteSets, TLC

(***************************************************************************)
(* Program constants                                                       *)
(***************************************************************************)
VGM_SAMPLE_RATE == 44100

\* setMaxDuration( 3 * 60 * 1000 ) in the constructor
DefaultDurationMs == 180000

\* "Vgm " and "NESM", little-endian
VGM_IDENT == \H206D6756
NSF_IDENT == \H4D53454E

\* midpoint the lanes of a sample are compared with in interpolateSample
MIDPOINT == 8192

\* sizeof(VgmHeader), sizeof(NsfHeader): the structs are declared in
\* vgm_file.h; the documented layouts end at offset 0x80
VgmHeaderSize == 128
NsfHeaderSize == 128

(***************************************************************************)
(* Bounds of the model                                                     *)
(***************************************************************************)
\* largest buffer size handed to decodePcm
MaxBuf == 9
\* largest setMaxDuration argument (milliseconds) besides the default
MaxMs == 1
\* how many bytes past the end of the image the cursor is followed
MaxOverrun == 2
\* how many chip ticks of an NSF session are followed
MaxTicks == 44

(***************************************************************************)
(* Bytes and little-endian fields                                          *)
(***************************************************************************)
Byte == 0..255

LE16(v) == << v % 256, (v \div 256) % 256 >>

LE32(v) == << v % 256, (v \div 256) % 256, (v \div 65536) % 256, (v \div 16777216) % 256 >>

Zeros(n) == [i \in 1..n |-> 0]

\* byte of image img at offset off (defined for 0 <= off < Len(img))
At(img, off) == img[off + 1]

U16(img, off) == At(img, off) + 256 * At(img, off + 1)

U32(img, off) ==
    At(img, off) + 256 * At(img, off + 1) + 65536 * At(img, off + 2)
        + 16777216 * At(img, off + 3)

(***************************************************************************)
(* File images handed to open().  A VGM image is the 0x80-byte header      *)
(* followed by the command stream; an NSF image is the 0x80-byte header    *)
(* followed by the ROM body.                                               *)
(***************************************************************************)
VgmHeaderBytes(ident, eofOffset, version, loopOffset, vgmDataOffset, ay8910Clock, nesApuClock) ==
    LE32(ident) \o LE32(eofOffset) \o LE32(version) \o Zeros(16)
        \o LE32(loopOffset) \o Zeros(20) \o LE32(vgmDataOffset) \o Zeros(64)
        \o LE32(nesApuClock) \o LE32(ay8910Clock)

\* a well-formed VGM file: eof_offset = size - 4
VgmImage(version, loopOffset, vgmDataOffset, ay8910Clock, nesApuClock, stream) ==
    VgmHeaderBytes(VGM_IDENT, VgmHeaderSize + Len(stream) - 4, version, loopOffset,
                   vgmDataOffset, ay8910Clock, nesApuClock) \o stream

NsfHeaderBytes(ident, songIndex, startSong, ntscPlaySpeed, bankSwitch) ==
    LE32(ident) \o << 26, 1, songIndex, startSong >> \o LE16(\H8000) \o LE16(\H8000)
        \o LE16(\H8003) \o Zeros(96) \o LE16(ntscPlaySpeed) \o bankSwitch \o Zeros(8)

NsfImage(songIndex, startSong, ntscPlaySpeed, bankSwitch) ==
    NsfHeaderBytes(NSF_IDENT, songIndex, startSong, ntscPlaySpeed, bankSwitch)
        \o << \H60, \H60, \H60, \H60 >>

V161 == \H161
V150 == \H150
V110 == \H110
AyClock == \H1B4F4D
NesClock == \H1B4F4C
\* header value of vgm_data_offset that puts the stream right after the header
DataAt80 == \H4C

\* S1: no chip, one wait, end
StreamSilence == << \H71, \H66 >>
\* PSG writes, a wait of 3 before the loop point and a wait of 2 after it
StreamPsgLoop == << \HA0, 7, \H3E, \H72, \HA0, 8, 15, \H71, \H66 >>
\* NES APU: data block, register write, three waits of 16 ticks
StreamApu == << \H67, \H66, 0, 1, 0, 0, 0, \HAA, \HB4, \H15, 15, \H7F, \H7F, \H7F, \H66 >>
\* a command in no handled or reserved range after one wait
StreamUnknown == << \H70, \H64, \H70, \H66 >>
\* PCM RAM write and DAC stream control
StreamPcmRam == << \H70, \H68, \H66, 0, 0, 0, 0, 0, 0, 0, 0, 0, \H70, \H66 >>
StreamDac == << \H90, 0, 0, 0, 0, \H70, \H66 >>
\* the stream ends inside the operands of a register write, without 0x66
StreamCut == << \H70, \HA0, 1 >>
\* 16-bit wait followed by skipped commands of every operand width
StreamSkips == << \H61, 2, 0, \H4F, 1, \H51, 1, 2, \HC0, 1, 2, 3, \HE0, 1, 2, 3, 4, \H80, \H66 >>
\* a loop whose section holds no wait
StreamEmptyLoop == << \H70, \H31, 0, \H66 >>
\* a register write for the chip the header does not declare
StreamPsgWrite == << \H70, \HA0, 7, \H3E, \H70, \H66 >>
StreamApuWrite == << \H70, \HB4, \H15, 15, \H70, \H66 >>

BaseImages ==
    << VgmImage(V161, 0, DataAt80, 0, 0, StreamSilence),
       VgmImage(V161, \H68, DataAt80, AyClock, 0, StreamPsgLoop),
       VgmImage(V161, 0, DataAt80, 0, NesClock, StreamApu),
       VgmImage(V161, 0, DataAt80, AyClock, 0, StreamUnknown),
       VgmImage(V161, 0, DataAt80, AyClock, 0, StreamPcmRam),
       VgmImage(V150, 0, DataAt80, AyClock, 0, StreamDac),
       VgmImage(V161, 0, DataAt80, AyClock, 0, StreamCut),
       VgmImage(V161, 0, DataAt80, AyClock, 0, StreamSkips),
       VgmImage(V161, \H65, DataAt80, AyClock, 0, StreamEmptyLoop),
       \* version below 1.50: vgm_data_offset is ignored, the stream starts at 0x40
       VgmImage(V110, 0, DataAt80, AyClock, 0, StreamSilence),
       \* vgm_data_offset + 0x34 beyond the end of the file
       VgmImage(V150, 0, \H60, AyClock, 0, StreamSilence),
       \* wrong magic
       VgmHeaderBytes(VGM_IDENT + 1, VgmHeaderSize + 2 - 4, V161, 0, DataAt80, AyClock, 0)
           \o StreamSilence,
       \* eof_offset does not match the size
       VgmHeaderBytes(VGM_IDENT, VgmHeaderSize + 2, V161, 0, DataAt80, AyClock, 0)
           \o StreamSilence,
       \* truncated header
       LE32(VGM_IDENT) \o LE32(4),
       NsfImage(2, 1, 500, Zeros(8)),
       \* three songs, the second the starting song; bank switched; play speed 0
       NsfImage(3, 2, 0, << 0, 1, 2, 3, 4, 5, 6, 7 >>),
       \* a PSG write in an APU session, an APU write in a PSG session
       VgmImage(V161, 0, DataAt80, 0, NesClock, StreamPsgWrite),
       VgmImage(V161, 0, DataAt80, AyClock, 0, StreamApuWrite) >>

\* one image for every command byte b: a wait of one sample, then b with
\* operand bytes 1, 1, 0, 0, 0, 0, then a wait and the end of data.  The
\* header declares the chip that b writes to.
CmdStream(b) == << \H70, b, 1, 1, 0, 0, 0, 0, \H70, \H66 >>

CmdImage(b) ==
    VgmImage(V161, 0, DataAt80, IF b = \HB4 THEN 0 ELSE AyClock,
             IF b = \HB4 THEN NesClock ELSE 0, CmdStream(b))

Images == BaseImages \o [i \in 1..256 |-> CmdImage(i - 1)]

\* the images open() is handed in Spec, and those of CmdSpec
ImageIds == 1..Len(BaseImages)

CmdImageIds == (Len(BaseImages) + 1)..Len(Images)

(***************************************************************************)
(* Header fields (VgmHeader, NsfHeader) read from the image                *)
(***************************************************************************)
ident(img) == U32(img, 0)
eofOffset(img) == U32(img, 4)
version(img) == U32(img, 8)
loopOffset(img) == U32(img, \H1C)
vgmDataOffset(img) == U32(img, \H34)
nesApuClock(img) == U32(img, \H78)
ay8910Clock(img) == U32(img, \H7C)

songIndex(img) == At(img, 6)
startSong(img) == At(img, 7)
initAddress(img) == U16(img, 10)
playAddress(img) == U16(img, 12)
ntscPlaySpeed(img) == U16(img, \H6E)
bankSwitch(img) == [i \in 0..7 |-> At(img, \H70 + i)]

(***************************************************************************)
(* State                                                                   *)
(***************************************************************************)
\* a noise generator seeded with 0
RngSeedZero == 1 - 1

\* uint32_t m_rng = 1
RngSeed == 1

\* one tick of the PSG noise generator on the 32-bit m_rng:
\* rng = (rng >> 1) | (((rng ^ (rng >> 3)) & 1) << 16)
NoiseStep(rng) ==
    LET low == rng \div 2
        bit == ((rng % 2) + ((rng \div 8) % 2)) % 2
    IN  IF bit = 1 /\ (low \div 65536) % 2 = 0 THEN low + 65536 ELSE low

VARIABLES
    \* VgmFile members.  m_rawData is the id of the image (0: nullptr),
    \* m_dataPtr the offset of the cursor from m_rawData, m_header /
    \* m_nsfHeader / m_msxChip / m_nesChip tell whether the pointer is set.
    m_rawData, m_size, m_header, m_nsfHeader, m_dataPtr,
    m_loopOffset, m_loops, m_samplesPlayed, m_waitSamples, m_duration,
    m_writeScaler, m_writeCounter, m_sampleSum, m_sampleSumValid,
    m_msxChip, m_nesChip,
    \* AY38910 member of the PSG m_msxChip points to: the noise LFSR (the
    \* seed while there is no PSG)
    m_rng,
    \* observations: the chip and CPU calls of the last setTrack, the chip
    \* calls the VGM stream caused since open
    trackOps, chipLog,
    \* the running decodePcm call: position, argument, local
    pc, maxSize, decoded,
    \* observations: value and cause of the last return, the last
    \* nextCommand step, the highest buffer index written in this call
    ret, why, lastCmd, hiWrite,
    \* observations: frames emitted and chip ticks since open, the chip
    \* samples merged into m_sampleSum (the window of the frame being
    \* accumulated or, while m_sampleSumValid is false, of the frame just
    \* written)
    frames, ticks, win,
    \* observations: the last chip-facing event, result of the last open
    evt, opened

sessionVars == << m_rawData, m_size, m_header, m_nsfHeader, m_msxChip, m_nesChip,
                  m_rng, m_loopOffset, trackOps, chipLog, opened >>
cursorVars == << m_dataPtr, m_loops, m_waitSamples >>
configVars == << m_duration, m_writeScaler >>
pumpVars == << m_samplesPlayed, m_writeCounter, m_sampleSum, m_sampleSumValid,
               frames, ticks, win >>
callVars == << pc, maxSize, decoded, ret, why, hiWrite >>
obsVars == << lastCmd, evt >>

vars == << sessionVars, cursorVars, configVars, pumpVars, callVars, obsVars >>

\* what the last open did: as is "vgm", "nsf", "failed", "closed" or "none"
Opened(as, id) == [as |-> as, id |-> id]

NotOpened == Opened("none", 0)

NoCmd == [off |-> -1, cmd |-> -1, adv |-> 0, maxRead |-> -1, ok |-> TRUE, kind |-> "none"]

\* setMaxDuration: m_duration = milliseconds * VGM_SAMPLE_RATE / 1000, a 64-bit
\* product; the quotient is computed here from the seconds and the remainder,
\* which gives the same value without the large intermediate
DurationOf(milliseconds) ==
    (milliseconds \div 1000) * VGM_SAMPLE_RATE
        + ((milliseconds % 1000) * VGM_SAMPLE_RATE) \div 1000

\* the object after VgmFile::VgmFile()
Init ==
    /\ m_rawData = 0 /\ m_size = 0 /\ m_header = FALSE /\ m_nsfHeader = FALSE
    /\ m_dataPtr = 0 /\ m_loopOffset = 0 /\ m_loops = 0
    /\ m_samplesPlayed = 0 /\ m_waitSamples = 0
    /\ m_duration = DurationOf(DefaultDurationMs)
    /\ m_writeScaler = VGM_SAMPLE_RATE
    /\ m_writeCounter = 0 /\ m_sampleSum = 0 /\ m_sampleSumValid = FALSE
    /\ m_msxChip = FALSE /\ m_nesChip = FALSE /\ m_rng = RngSeed
    /\ trackOps = << >> /\ chipLog = << >>
    /\ pc = "idle" /\ maxSize = 0 /\ decoded = 0
    /\ ret = 0 /\ why = "none" /\ lastCmd = NoCmd /\ hiWrite = -1
    /\ frames = 0 /\ ticks = 0 /\ win = << >>
    /\ evt = "none" /\ opened = NotOpened

(***************************************************************************)
(* open, close, setTrack and the setters                                   *)
(***************************************************************************)
\* result of openVgm: the size, magic and eof_offset checks
openVgm(img) ==
    /\ ~(Len(img) < VgmHeaderSize)
    /\ ~(ident(img) # VGM_IDENT)
    /\ ~(eofOffset(img) # Len(img) - 4)

\* m_vgmDataOffset, the cursor of a fresh VGM session
VgmDataStart(img) ==
    IF version(img) >= \H150 /\ vgmDataOffset(img) # 0
    THEN vgmDataOffset(img) + \H34
    ELSE \H40

\* m_loopOffset and m_loops of a fresh VGM session
LoopOffsetAtOpen(img) == IF loopOffset(img) # 0 THEN \H1C + loopOffset(img) ELSE 0

LoopsAtOpen(img) == IF loopOffset(img) # 0 THEN 2 ELSE 1

\* openNsf up to the magic check
NsfSizeOk(img) == ~(Len(img) < NsfHeaderSize)

NsfMagicOk(img) == ~(ident(img) # NSF_IDENT)

\* results of callSubroutine: CPU fault, cycle cap reached, cycles used
CpuResults == {-1, 0, 1}

\* a call made on a chip or on the CPU; at is the offset of the VGM command
\* that caused it (-1: none)
ChipOp(op, addr, last, val) ==
    [op |-> op, addr |-> addr, last |-> last, val |-> val, at |-> -1]

StreamOp(op, addr, val, at) ==
    [op |-> op, addr |-> addr, last |-> addr, val |-> val, at |-> at]

\* cpu.a = track < songIndex ? track : 0, an 8-bit register
TrackRegister(img, track) == IF track < songIndex(img) THEN track % 256 ELSE 0

\* the CPU registers setTrack sets before it calls the init routine
CpuAtInit(img, track) == [a |-> TrackRegister(img, track), x |-> 0, sp |-> \HEF]

\* callSubroutine(addr) entered with the registers regs, returning result
CallOp(addr, regs, result) ==
    [op |-> "callSubroutine", addr |-> addr, last |-> addr, val |-> result, at |-> -1,
     regs |-> regs]

\* a test of the bank table that looks at its first entry only
BankWritesByFirstEntry(img) ==
    IF bankSwitch(img)[0] # 0
    THEN [i \in 1..8 |-> ChipOp("write", \H5FF8 + (i - 1), \H5FF8 + (i - 1),
                                bankSwitch(img)[i - 1])]
    ELSE << >>

\* if ( useBanks ) m_nesChip->write( 0x5FF8 + i, bankSwitch[i] ), i = 0..7
BankWrites(img) ==
    IF \E i \in 0..7 : bankSwitch(img)[i] # 0
    THEN [i \in 1..8 |-> ChipOp("write", \H5FF8 + (i - 1), \H5FF8 + (i - 1),
                                bankSwitch(img)[i - 1])]
    ELSE << >>

\* reset of the CPU memory and of the APU registers; a setData entry stands
\* for the calls setData(i, val) for i = addr .. last, in increasing i
ClearOps ==
    << ChipOp("setData", 0, \H07FF - 1, 0),
       ChipOp("setData", \H4000, \H4013 - 1, 0),
       ChipOp("setData", \H4015, \H4015, 0),
       ChipOp("setData", \H4015, \H4015, \H0F),
       ChipOp("setData", \H4017, \H4017, \H40) >>

\* the chip and CPU calls of setTrack on an NSF session, in program order
SetTrackOps(img, track, result) ==
    << ChipOp("reset", 0, 0, 0),
       ChipOp("setDataBlock", U16(img, 8), \H80, Len(img) - \H80) >>
    \o BankWrites(img)
    \o ClearOps
    \o << CallOp(initAddress(img), CpuAtInit(img, track), result) >>

\* open is followed on an engine that has not produced a sample yet: every
\* behaviour holds any number of sessions that were opened, refused or
\* closed, and one that is played
Fresh == pc = "idle" /\ ticks = 0

\* close and setTrack are followed before the session produced a sample and
\* after a decodePcm call that ended short of a full buffer
Settled == pc = "idle" /\ (ticks = 0 \/ why # "full")

\* the observations of the last call start afresh with open and close
ResetObs ==
    /\ lastCmd' = NoCmd
    /\ maxSize' = 0 /\ decoded' = 0 /\ ret' = 0 /\ why' = "none" /\ hiWrite' = -1

\* open(data, size): openVgm, and openNsf when openVgm refuses the image
Open(id) ==
    LET img == Images[id] IN
    /\ Fresh
    /\ ResetObs
    /\ UNCHANGED << configVars, pc, frames, ticks >>
    /\ IF openVgm(img)
       THEN /\ m_rawData' = id /\ m_size' = Len(img)
            /\ m_header' = TRUE /\ m_nsfHeader' = FALSE
            /\ m_dataPtr' = VgmDataStart(img)
            /\ m_samplesPlayed' = 0 /\ m_waitSamples' = 0
            /\ m_loopOffset' = LoopOffsetAtOpen(img)
            /\ m_loops' = LoopsAtOpen(img)
            /\ m_msxChip' = (ay8910Clock(img) # 0) /\ m_rng' = RngSeed
            /\ m_nesChip' = (ay8910Clock(img) = 0 /\ nesApuClock(img) # 0)
            /\ m_writeCounter' = 0 /\ m_sampleSum' = 0 /\ m_sampleSumValid' = FALSE
            /\ win' = << >>
            /\ opened' = Opened("vgm", id) /\ evt' = "open"
            /\ chipLog' = << >>
            /\ UNCHANGED trackOps
       ELSE \* openVgm returned false; openNsf starts with close()
            /\ m_header' = FALSE /\ m_msxChip' = FALSE /\ m_rng' = RngSeed
            /\ m_samplesPlayed' = 0
            /\ UNCHANGED << m_loopOffset, m_loops, m_writeCounter, m_sampleSum,
                            m_sampleSumValid, win >>
            /\ IF ~NsfSizeOk(img)
               THEN /\ m_rawData' = 0 /\ m_nsfHeader' = FALSE /\ m_nesChip' = FALSE
                    /\ opened' = Opened("failed", id) /\ evt' = "open"
                    /\ UNCHANGED << m_size, m_dataPtr, m_waitSamples, trackOps, chipLog >>
               ELSE /\ m_rawData' = id /\ m_size' = Len(img)
                    /\ m_nsfHeader' = TRUE /\ m_dataPtr' = 0
                    /\ IF ~NsfMagicOk(img)
                       THEN /\ m_nesChip' = FALSE
                            /\ opened' = Opened("failed", id) /\ evt' = "open"
                            /\ UNCHANGED << m_waitSamples, trackOps, chipLog >>
                       ELSE \* new NesApu(), setTrack( 0 )
                            /\ m_nesChip' = TRUE
                            /\ evt' = "init"
                            /\ UNCHANGED chipLog
                            /\ \E result \in CpuResults :
                                /\ trackOps' = SetTrackOps(img, 0, result)
                                /\ IF result < 0
                                   THEN /\ opened' = Opened("failed", id)
                                        /\ UNCHANGED m_waitSamples
                                   ELSE /\ opened' = Opened("nsf", id)
                                        /\ m_waitSamples' = 0

\* close()
Close ==
    /\ Settled
    /\ m_nsfHeader' = FALSE /\ m_header' = FALSE /\ m_rawData' = 0
    /\ m_samplesPlayed' = 0
    /\ m_msxChip' = FALSE /\ m_nesChip' = FALSE /\ m_rng' = RngSeed
    /\ opened' = Opened("closed", 0) /\ evt' = "close"
    /\ ResetObs
    /\ UNCHANGED << m_size, m_loopOffset, trackOps, chipLog, cursorVars, configVars,
                    m_writeCounter, m_sampleSum, m_sampleSumValid, win, pc, frames, ticks >>

Tracks == {-1, 1, 2}

\* setTrack(track): a no-op for VGM, refused without a session.  On an NSF
\* header without a chip m_nesChip->reset() goes through a null pointer.
SetTrack(track) ==
    /\ Settled
    /\ IF m_header \/ ~m_nsfHeader
       THEN UNCHANGED << trackOps, m_samplesPlayed, evt, pc >>
       ELSE IF ~m_nesChip
       THEN /\ pc' = "crashed"
            /\ UNCHANGED << trackOps, m_samplesPlayed, evt >>
       ELSE /\ evt' = "init"
            /\ \E result \in CpuResults :
                /\ trackOps' = SetTrackOps(Images[m_rawData], track, result)
                /\ m_samplesPlayed' = IF result < 0 THEN m_samplesPlayed ELSE 0
            /\ UNCHANGED pc
    /\ UNCHANGED << m_rawData, m_size, m_header, m_nsfHeader, m_msxChip, m_nesChip, m_rng,
                    m_loopOffset, chipLog, opened, cursorVars, configVars,
                    m_writeCounter, m_sampleSum, m_sampleSumValid,
                    frames, ticks, win, maxSize, decoded, ret, why, hiWrite, lastCmd >>

\* the setters are followed while the session has produced no sample: the
\* host rate and the duration cap are set up before playback
BeforePlayback == ticks = 0

Milliseconds == (0..MaxMs) \cup {DefaultDurationMs}

\* setMaxDuration(milliseconds)
SetMaxDuration(milliseconds) ==
    /\ pc = "idle" /\ BeforePlayback
    /\ m_duration' = DurationOf(milliseconds)
    /\ UNCHANGED << sessionVars, cursorVars, m_writeScaler, pumpVars, callVars,
                    lastCmd, evt >>

Frequencies == {22050, 32000, VGM_SAMPLE_RATE}

\* setSampleFrequency(frequency)
SetSampleFrequency(frequency) ==
    /\ pc = "idle" /\ BeforePlayback
    /\ m_writeScaler' = frequency
    /\ UNCHANGED << sessionVars, cursorVars, m_duration, pumpVars, callVars,
                    lastCmd, evt >>

(***************************************************************************)
(* nextCommand: one step of the VGM interpreter                            *)
(***************************************************************************)
InRange(cmd, lo, hi) == cmd >= lo /\ cmd <= hi

\* what the switch adds to m_dataPtr for a command that only moves the
\* cursor or sets the wait; -1 when the command is unknown
SkipLength(cmd) ==
    CASE cmd = \H31 -> 2
      [] cmd = \H4F -> 2
      [] cmd = \H50 -> 2
      [] InRange(cmd, \H51, \H5F) -> 3
      [] cmd = \H61 -> 3
      [] cmd = \H62 -> 1
      [] cmd = \H63 -> 1
      [] cmd = \H68 -> 0
      [] cmd = \HA0 -> 3
      [] cmd = \HB4 -> 3
      [] InRange(cmd, \HB0, \HBF) /\ cmd # \HB4 -> 3
      [] cmd = \H30 \/ cmd = \H3F -> 2
      [] InRange(cmd, \HC0, \HC8) \/ InRange(cmd, \HD0, \HD6) -> 4
      [] cmd = \HE0 \/ cmd = \HE1 -> 5
      [] InRange(cmd, \H70, \H7F) -> 1
      [] InRange(cmd, \H80, \H8F) -> 1
      [] InRange(cmd, \H90, \H95) -> 0
      [] InRange(cmd, \H32, \H3E) -> 2
      [] InRange(cmd, \H40, \H4E) -> 3
      [] InRange(cmd, \HA1, \HAF) -> 3
      [] InRange(cmd, \HC9, \HCF) \/ InRange(cmd, \HD7, \HDF) -> 4
      [] InRange(cmd, \HE2, \HFF) -> 5
      [] OTHER -> -1

\* m_waitSamples after a wait command; -1 for a command that sets no wait
\* a wait of 0x61 that takes the low byte only
WaitOfLowByte(cmd, b1, b2) ==
    CASE cmd = \H61 -> b1 + 1
      [] cmd = \H62 -> 735
      [] cmd = \H63 -> 882
      [] InRange(cmd, \H70, \H7F) -> (cmd % 16) + 1
      [] OTHER -> -1

WaitOf(cmd, b1, b2) ==
    CASE cmd = \H61 -> (b1 + 256 * b2) + 1
      [] cmd = \H62 -> 735
      [] cmd = \H63 -> 882
      [] InRange(cmd, \H70, \H7F) -> (cmd % 16) + 1
      [] OTHER -> -1

\* highest operand index nextCommand reads for the command (0: the command
\* byte only).  The arguments of the LOG lines are not counted.
OperandsRead(cmd) ==
    CASE cmd = \H61 -> 2
      [] cmd = \H67 -> 6
      [] cmd = \HA0 -> 2
      [] cmd = \HB4 -> 2
      [] OTHER -> 0

\* a loop test that stops at a count of zero instead of one: one pass more
LoopsBackToZero(loopOff, loops) == loopOff # 0 /\ loops # 0

\* case 0x66: whether the stream loops
LoopsBack(loopOff, loops) == loopOff # 0 /\ loops # 1

\* a stop that steps over the command that stopped the stream
StopPast(ptr) == ptr + 1

\* return false: m_dataPtr stays on the command that stopped the stream
StopAt(ptr) == ptr

\* nextCommand on command byte cmd with operand bytes b[1..6]: the return
\* value, the new cursor, wait and loop count, and what was done
nextCommand(cmd, b, ptr, wait, loopOff, loops) ==
    IF cmd = \H66
    THEN IF LoopsBack(loopOff, loops)
         THEN [ok |-> TRUE, ptr |-> loopOff, wait |-> wait,
               loops |-> IF loops # 0 THEN loops - 1 ELSE loops, kind |-> "loop"]
         ELSE [ok |-> FALSE, ptr |-> StopAt(ptr), wait |-> wait, loops |-> loops,
               kind |-> "end"]
    ELSE IF cmd = \H67
    THEN [ok |-> TRUE,
          ptr |-> ptr + 7 + (b[3] + 256 * b[4] + 65536 * b[5] + 16777216 * b[6]),
          wait |-> wait, loops |-> loops, kind |-> "block"]
    ELSE IF SkipLength(cmd) = -1
    THEN [ok |-> FALSE, ptr |-> StopAt(ptr), wait |-> wait, loops |-> loops,
          kind |-> "unknown"]
    ELSE [ok |-> TRUE, ptr |-> ptr + SkipLength(cmd),
          wait |-> IF WaitOf(cmd, b[1], b[2]) = -1 THEN wait ELSE WaitOf(cmd, b[1], b[2]),
          loops |-> loops,
          kind |-> IF WaitOf(cmd, b[1], b[2]) # -1 THEN "wait"
                   ELSE IF cmd = \HA0 \/ cmd = \HB4 THEN "write" ELSE "skip"]

(***************************************************************************)
(* Reads through the cursor                                                *)
(***************************************************************************)
\* bytes a read outside the image may deliver: an unknown command, end of
\* data, a wait of one sample
OobBytes == {0, \H66, \H70}

Mapped(off) == m_rawData # 0 /\ off >= 0 /\ off < m_size

\* beyond the image the model follows the cursor MaxOverrun bytes
Followed(off) == m_rawData # 0 /\ off >= 0 /\ off < m_size + MaxOverrun

ReadChoices(off) ==
    IF Mapped(off) THEN {At(Images[m_rawData], off)}
    ELSE IF Followed(off) THEN OobBytes
    ELSE {}

\* operand i of the command at the cursor, read only when the command reads it
OperandChoices(cmd, i) ==
    IF i > OperandsRead(cmd) \/ (cmd = \H67 /\ i < 3) THEN {0}
    ELSE ReadChoices(m_dataPtr + i)

\* highest offset the command at the cursor makes nextCommand read
MaxRead(cmd) == m_dataPtr + OperandsRead(cmd)

(***************************************************************************)
(* interpolateSample and the sample pump                                   *)
(***************************************************************************)
Left(sample) == sample % 65536

Right(sample) == sample \div 65536

Pack(left, right) == left + 65536 * right

\* values getSample() of the PSG delivers in the model: the lanes differ, and
\* each lane has a value on either side of the midpoint
PsgSamples == { Pack(100, 9000), Pack(8200, 100) }

\* the NES APU is followed while it holds one output level
ApuSamples == { Pack(9000, 9000) }

\* a sample source that asks the PSG whether or not the session has one
NextSamplesFromPsg ==
    IF m_nesChip THEN ApuSamples ELSE PsgSamples

\* nextSample: 0 without a chip, else what the chip returns
NextSamples ==
    IF m_nesChip THEN ApuSamples
    ELSE IF m_msxChip THEN PsgSamples
    ELSE {0}

\* one lane of the merge in interpolateSample
MergeLane(source, dest) ==
    IF (source >= MIDPOINT /\ source > dest) \/ (source < MIDPOINT /\ source < dest)
    THEN source
    ELSE dest

\* a merge that never starts afresh: the accumulator of the frame before
\* is merged into the next one
interpolateStale(nextSample, sampleSum, sampleSumValid) ==
    Pack(MergeLane(Left(nextSample), Left(sampleSum)),
         MergeLane(Right(nextSample), Right(sampleSum)))

\* m_sampleSum after interpolateSample() pulled nextSample
interpolateSample(nextSample, sampleSum, sampleSumValid) ==
    LET dest == IF ~sampleSumValid THEN nextSample ELSE sampleSum IN
    Pack(MergeLane(Left(nextSample), Left(dest)), MergeLane(Right(nextSample), Right(dest)))

\* a loop condition that asks for room for one byte instead of a frame
RoomForByte(dec, max) == dec + 1 <= max

\* the loop condition decoded + 4 <= maxSize
Room(dec, max) == dec + 4 <= max

\* m_writeCounter >= VGM_SAMPLE_RATE: a frame is written
FrameDue(writeCounter) == writeCounter >= VGM_SAMPLE_RATE

\* a counter that is cleared when a frame is written, dropping the remainder
CounterCleared(writeCounter) == 0

\* m_writeCounter after a frame was written
AfterFrame(writeCounter) == writeCounter - VGM_SAMPLE_RATE

\* a cap test that lets the engine start one more window at the cap itself
DurationPassed(duration, samplesPlayed) == duration # 0 /\ samplesPlayed > duration

\* m_duration && m_samplesPlayed >= m_duration
DurationReached(duration, samplesPlayed) == duration # 0 /\ samplesPlayed >= duration

\* a command loop that is left after every command, whatever the wait
AlwaysPump(wait) == "pump"

\* where the call goes after a command or play call set the wait to wait:
\* into the pump loop, or round the command loop again
AfterCommand(wait) == IF wait # 0 THEN "pump" ELSE "cmd"

\* NSF: after the play call the pump loop runs while the wait lasts, then
\* control is back at the head of the outer loop
AfterPlay(wait) == IF wait # 0 THEN "pump" ELSE "loop"

\* a wait that is one longer, as the wait of the VGM command 0x61 is
PlayWaitPlusOne(speed) == (VGM_SAMPLE_RATE * speed) \div 1000000 + 1

\* m_waitSamples after a successful play call
PlayWait(speed) == (VGM_SAMPLE_RATE * speed) \div 1000000

\* a return that reports no bytes when the call ends early
ReturnNothing(cause) ==
    /\ pc' = "idle" /\ ret' = 0 /\ why' = cause
    /\ UNCHANGED << maxSize, decoded, hiWrite >>

\* return decoded
Return(cause) ==
    /\ pc' = "idle" /\ ret' = decoded /\ why' = cause
    /\ UNCHANGED << maxSize, decoded, hiWrite >>

BufferSizes == {3, 4, MaxBuf}

\* decodePcm(outBuffer, maxSize): entry of decodeVgmPcm / decodeNfsPcm
DecodeCall(max) ==
    /\ pc = "idle"
    /\ pc' = "loop" /\ maxSize' = max /\ decoded' = 0 /\ hiWrite' = -1
    /\ trackOps' = << >>
    /\ UNCHANGED << m_rawData, m_size, m_header, m_nsfHeader, m_msxChip, m_nesChip, m_rng,
                    m_loopOffset, chipLog, opened, cursorVars, configVars, pumpVars,
                    ret, why, obsVars >>

\* an outer loop that starts every round with a command, whatever is left
\* of the wait
ResumeAtCommand(wait) == "cmd"

\* inside the outer loop: the command loop (the play branch) is entered
\* when m_waitSamples is 0, else the pump loop goes on with the wait
AtLoopHead(wait) == IF wait = 0 THEN "cmd" ELSE "pump"

\* head of the outer loop: while ( decoded + 4 <= maxSize )
LoopHead ==
    /\ pc = "loop"
    /\ IF Room(decoded, maxSize)
       THEN /\ pc' = AtLoopHead(m_waitSamples)
            /\ UNCHANGED << maxSize, decoded, ret, why, hiWrite >>
       ELSE Return("full")
    /\ UNCHANGED << sessionVars, cursorVars, configVars, pumpVars, obsVars >>

\* one round of while ( !m_waitSamples ) in decodeVgmPcm
CmdStep ==
    /\ pc = "cmd" /\ ~m_nsfHeader
    /\ UNCHANGED << m_rawData, m_size, m_header, m_nsfHeader, m_msxChip, m_nesChip, m_rng,
                    m_loopOffset, trackOps, opened, configVars, pumpVars >>
    /\ IF DurationReached(m_duration, m_samplesPlayed)
       THEN /\ Return("cap")
            /\ UNCHANGED << cursorVars, chipLog, lastCmd, evt >>
       ELSE \/ \* a read outside the image, or a write through a null chip
               \* pointer, faults
               /\ \/ ~Mapped(m_dataPtr)
                  \/ \E cmd \in ReadChoices(m_dataPtr) :
                        \/ ~Mapped(MaxRead(cmd))
                        \/ cmd = \HA0 /\ ~m_msxChip
                        \/ cmd = \HB4 /\ ~m_nesChip
               /\ pc' = "crashed"
               /\ UNCHANGED << maxSize, decoded, ret, why, hiWrite, cursorVars, chipLog,
                               lastCmd, evt >>
            \/ \E cmd \in ReadChoices(m_dataPtr) :
               \E b1 \in OperandChoices(cmd, 1), b2 \in OperandChoices(cmd, 2),
                  b3 \in OperandChoices(cmd, 3), b4 \in OperandChoices(cmd, 4),
                  b5 \in OperandChoices(cmd, 5), b6 \in OperandChoices(cmd, 6) :
               LET r == nextCommand(cmd, << b1, b2, b3, b4, b5, b6 >>, m_dataPtr,
                                    m_waitSamples, m_loopOffset, m_loops)
               IN
               /\ ~(cmd = \HA0 /\ ~m_msxChip)
               /\ ~(cmd = \HB4 /\ ~m_nesChip)
               /\ m_dataPtr' = r.ptr /\ m_waitSamples' = r.wait /\ m_loops' = r.loops
               /\ lastCmd' = [off |-> m_dataPtr, cmd |-> cmd, adv |-> r.ptr - m_dataPtr,
                              maxRead |-> MaxRead(cmd), ok |-> r.ok, kind |-> r.kind]
               /\ evt' = r.kind
               /\ chipLog' =
                    IF cmd = \HA0 \/ cmd = \HB4
                    THEN Append(chipLog, StreamOp("write", b1, b2, m_dataPtr))
                    ELSE IF cmd = \H67 /\ m_nesChip
                    THEN Append(chipLog, StreamOp("setDataBlock", m_dataPtr + 7,
                                                  r.ptr - m_dataPtr - 7, m_dataPtr))
                    ELSE chipLog
               /\ IF r.ok
                  THEN /\ pc' = AfterCommand(r.wait)
                       /\ UNCHANGED << maxSize, decoded, ret, why, hiWrite >>
                  ELSE Return(r.kind)

\* how many chip ticks of an NSF session the model follows
NsfRoom == ticks < MaxTicks

\* what the play call was, by the result of callSubroutine
PlayEvent(result) ==
    IF result < 0 THEN "playFault" ELSE IF result = 0 THEN "playCap" ELSE "play"

\* a test of the result that takes the cycle cap for a success
PlayStopsOnFault(result) == result < 0

\* the two breaks after the play call: result < 0, result == 0
PlayStops(result) == result < 0 \/ result = 0

\* the branch if ( !m_waitSamples ) of decodeNfsPcm
PlayStep ==
    /\ pc = "cmd" /\ m_nsfHeader
    /\ UNCHANGED << sessionVars, configVars, pumpVars, m_dataPtr, m_loops, lastCmd >>
    /\ IF DurationReached(m_duration, m_samplesPlayed)
       THEN /\ Return("cap")
            /\ UNCHANGED << m_waitSamples, evt >>
       ELSE IF ~m_nesChip
       THEN \* m_nesChip->callSubroutine through a null pointer
            /\ pc' = "crashed"
            /\ UNCHANGED << maxSize, decoded, ret, why, hiWrite, m_waitSamples, evt >>
       ELSE \E result \in CpuResults :
            /\ evt' = PlayEvent(result)
            /\ IF PlayStops(result)
               THEN Return(IF result < 0 THEN "fault" ELSE "runaway")
                    /\ UNCHANGED m_waitSamples
               ELSE /\ NsfRoom
                    /\ m_waitSamples' = PlayWait(ntscPlaySpeed(Images[m_rawData]))
                    /\ pc' = AfterPlay(m_waitSamples')
                    /\ UNCHANGED << maxSize, decoded, ret, why, hiWrite >>

\* one round of while ( m_waitSamples && (decoded + 4 <= maxSize) ), the
\* same code in decodeVgmPcm and decodeNfsPcm
PumpStep ==
    /\ pc = "pump"
    /\ \E nextSample \in NextSamples :
       LET sum == interpolateSample(nextSample, m_sampleSum, m_sampleSumValid)
           counter == m_writeCounter + m_writeScaler
       IN
       /\ m_samplesPlayed' = m_samplesPlayed + 1
       /\ m_waitSamples' = m_waitSamples - 1
       /\ m_sampleSum' = sum
       /\ win' = IF m_sampleSumValid THEN Append(win, nextSample) ELSE << nextSample >>
       /\ ticks' = ticks + 1
       /\ evt' = IF m_msxChip \/ m_nesChip THEN "sample" ELSE evt
       /\ IF FrameDue(counter)
          THEN /\ m_writeCounter' = AfterFrame(counter)
               /\ m_sampleSumValid' = FALSE
               /\ decoded' = decoded + 4
               /\ hiWrite' = decoded + 3
               /\ frames' = frames + 1
          ELSE /\ m_writeCounter' = counter
               /\ m_sampleSumValid' = TRUE
               /\ UNCHANGED << decoded, hiWrite, frames >>
       /\ pc' = IF m_waitSamples' # 0 /\ Room(decoded', maxSize) THEN "pump" ELSE "loop"
    /\ UNCHANGED << sessionVars, configVars, m_dataPtr, m_loops, maxSize, ret, why,
                    lastCmd >>

DecodeStep == LoopHead \/ CmdStep \/ PlayStep \/ PumpStep

Next ==
    \/ \E id \in ImageIds : Open(id)
    \/ Close
    \/ \E track \in Tracks : SetTrack(track)
    \/ \E milliseconds \in Milliseconds : SetMaxDuration(milliseconds)
    \/ \E frequency \in Frequencies : SetSampleFrequency(frequency)
    \/ \E max \in BufferSizes : DecodeCall(max)
    \/ LoopHead
    \/ CmdStep
    \/ PlayStep
    \/ PumpStep

Spec == Init /\ [][Next]_vars

(***************************************************************************)
(* CmdSpec: the interpreter on every command byte.  The engine has been    *)
(* constructed and has opened the image of one command byte; decodePcm is  *)
(* then called any number of times.                                        *)
(***************************************************************************)
CmdInit ==
    \E id \in CmdImageIds :
        /\ m_rawData = id /\ m_size = Len(Images[id])
        /\ m_header = TRUE /\ m_nsfHeader = FALSE
        /\ m_dataPtr = VgmDataStart(Images[id])
        /\ m_loopOffset = LoopOffsetAtOpen(Images[id])
        /\ m_loops = LoopsAtOpen(Images[id])
        /\ m_samplesPlayed = 0 /\ m_waitSamples = 0
        /\ m_duration = DurationOf(DefaultDurationMs)
        /\ m_writeScaler = VGM_SAMPLE_RATE
        /\ m_writeCounter = 0 /\ m_sampleSum = 0 /\ m_sampleSumValid = FALSE
        /\ m_msxChip = (ay8910Clock(Images[id]) # 0) /\ m_rng = RngSeed
        /\ m_nesChip = (ay8910Clock(Images[id]) = 0 /\ nesApuClock(Images[id]) # 0)
        /\ trackOps = << >> /\ chipLog = << >>
        /\ pc = "idle" /\ maxSize = 0 /\ decoded = 0
        /\ ret = 0 /\ why = "none" /\ lastCmd = NoCmd /\ hiWrite = -1
        /\ frames = 0 /\ ticks = 0 /\ win = << >>
        /\ evt = "open" /\ opened = Opened("vgm", id)

CmdNext ==
    \/ \E max \in BufferSizes : DecodeCall(max)
    \/ LoopHead
    \/ CmdStep
    \/ PumpStep

CmdSpec == CmdInit /\ [][CmdNext]_vars

(***************************************************************************)
(* The noise generator of the PSG of a VGM session, ticked any number of   *)
(* times                                                                   *)
(***************************************************************************)
RngInit == CmdInit /\ m_rawData = Len(BaseImages) + 1 + \HA0

NoiseTick ==
    /\ m_msxChip
    /\ m_rng' = NoiseStep(m_rng)
    /\ UNCHANGED << m_rawData, m_size, m_header, m_nsfHeader, m_msxChip, m_nesChip,
                    m_loopOffset, trackOps, chipLog, opened,
                    cursorVars, configVars, pumpVars, callVars, obsVars >>

RngNext == NoiseTick

RngSpec == RngInit /\ [][RngNext]_vars

(***************************************************************************)
(* Claims                                                                  *)
(***************************************************************************)
Running == pc \in {"loop", "cmd", "pump"}

\* C1: every call of decodePcm returns after finitely many steps.  The call
\* is deterministic between two reads of the chip and the CPU, so a running
\* call that has a step which leaves the whole state as it was takes that
\* step again and again and never returns: the claim requires that no
\* reachable state of a running call has such a step.
C1_EveryStepProgresses == Running => ~ENABLED (DecodeStep /\ UNCHANGED vars)

\* operand bytes the VGM format documents for command byte cmd (for 0x67
\* the six bytes before the data of the block); -1 for a byte the format
\* does not define
DocOperands(cmd) ==
    CASE InRange(cmd, \H30, \H3F) -> 1
      [] InRange(cmd, \H40, \H4E) -> 2
      [] InRange(cmd, \H4F, \H50) -> 1
      [] InRange(cmd, \H51, \H5F) -> 2
      [] cmd = \H61 -> 2
      [] InRange(cmd, \H62, \H63) -> 0
      [] cmd = \H66 -> 0
      [] cmd = \H67 -> 6
      [] cmd = \H68 -> 11
      [] InRange(cmd, \H70, \H8F) -> 0
      [] cmd = \H90 \/ cmd = \H91 \/ cmd = \H95 -> 4
      [] cmd = \H92 -> 5
      [] cmd = \H93 -> 10
      [] cmd = \H94 -> 1
      [] InRange(cmd, \HA0, \HBF) -> 2
      [] InRange(cmd, \HC0, \HDF) -> 3
      [] InRange(cmd, \HE0, \HFF) -> 4
      [] OTHER -> -1

\* C2: a step of nextCommand reads no byte at an offset >= size, and it
\* either returns false (unknown command, end of stream), or jumps to the
\* loop point, or moves the cursor by one plus the documented operand
\* length of the command (a data block: at least its seven header bytes).
C2_DocumentedAdvance ==
    lastCmd.cmd # -1 =>
        /\ lastCmd.maxRead < m_size
        /\ \/ ~lastCmd.ok
           \/ lastCmd.kind = "loop"
           \/ lastCmd.cmd = \H67 /\ lastCmd.adv >= 1 + DocOperands(lastCmd.cmd)
           \/ lastCmd.cmd # \H67 /\ lastCmd.adv = 1 + DocOperands(lastCmd.cmd)

\* C3: after open was handed an image, a VGM session is open if and only
\* if the magic is "Vgm ", eof_offset = size - 4, and, for version >= 1.50,
\* vgm_data_offset + 0x34 <= size (a header cut short is refused).
C3_OpenIffWellFormed ==
    opened.id # 0 =>
        LET img == Images[opened.id] IN
        (opened.as = "vgm") <=>
            /\ Len(img) >= VgmHeaderSize
            /\ ident(img) = VGM_IDENT
            /\ eofOffset(img) = Len(img) - 4
            /\ (version(img) >= \H150 => vgmDataOffset(img) + \H34 <= Len(img))

(***************************************************************************)
(* The command stream read statically: the samples of the waits and the    *)
(* register writes from offset off up to the next 0x66, in byte order.     *)
(* ok is FALSE when the walk leaves the image, meets an unknown command or *)
(* a command that does not move the cursor.                                *)
(***************************************************************************)
Lost == [ok |-> FALSE, samples |-> 0, writes |-> << >>, end |-> -1]

RECURSIVE Walk(_, _)
Walk(img, off) ==
    IF off < 0 \/ off >= Len(img) THEN Lost
    ELSE LET cmd == At(img, off) IN
         IF off + OperandsRead(cmd) >= Len(img) THEN Lost
         ELSE IF cmd = \H66
         THEN [ok |-> TRUE, samples |-> 0, writes |-> << >>, end |-> off]
         ELSE LET n == IF cmd = \H67 THEN 7 + U32(img, off + 3) ELSE SkipLength(cmd)
                  b1 == IF OperandsRead(cmd) >= 1 THEN At(img, off + 1) ELSE 0
                  b2 == IF OperandsRead(cmd) >= 2 THEN At(img, off + 2) ELSE 0
                  w == WaitOf(cmd, b1, b2)
              IN IF n <= 0 THEN Lost
                 ELSE LET rest == Walk(img, off + n) IN
                      [ok |-> rest.ok,
                       samples |-> rest.samples + (IF w = -1 THEN 0 ELSE w),
                       writes |-> (IF cmd = \HA0 \/ cmd = \HB4
                                   THEN << StreamOp("write", b1, b2, off) >>
                                   ELSE << >>) \o rest.writes,
                       end |-> rest.end]

\* the image of the session, and its stream read from the start and from
\* the loop point
Image == Images[opened.id]

FromStart == Walk(Image, VgmDataStart(Image))

FromLoop == Walk(Image, \H1C + loopOffset(Image))

\* C4: in a VGM session whose stream runs from the start to 0x66 inside the
\* image, a 0x66 met with a non-zero header loop_offset is answered once by
\* the jump to the loop point (raw + 0x1C + loop_offset, loops from 2 to 1,
\* the samples played so far being those of the first pass) and the second
\* time by end-of-stream, the samples played being pre-loop + 2 x loop;
\* with loop_offset = 0 the first 0x66 ends the stream.
C4_LoopPlayedTwice ==
    (opened.as = "vgm" /\ FromStart.ok /\ lastCmd.cmd = \H66) =>
        IF loopOffset(Image) = 0
        THEN /\ lastCmd.kind = "end"
             /\ m_samplesPlayed = FromStart.samples
        ELSE /\ FromLoop.ok
             /\ m_loops = 1
             /\ \/ /\ lastCmd.kind = "loop"
                   /\ m_dataPtr = \H1C + loopOffset(Image)
                   /\ m_samplesPlayed = FromStart.samples
                \/ /\ lastCmd.kind = "end"
                   /\ m_samplesPlayed = FromStart.samples + FromLoop.samples

C4_Witness ==
    /\ opened.as = "vgm" /\ loopOffset(Image) # 0
    /\ pc = "idle" /\ why = "end" /\ m_loops = 1
    /\ FromLoop.samples = 2 /\ m_samplesPlayed = 7

\* distance of a lane value from the midpoint
Dist(lane) == IF lane >= MIDPOINT THEN lane - MIDPOINT ELSE MIDPOINT - lane

\* lane value v is the one of the window farthest from the midpoint
Peak(v, lanes) ==
    /\ \E i \in 1..Len(lanes) : lanes[i] = v
    /\ \A i \in 1..Len(lanes) : Dist(v) >= Dist(lanes[i])

\* C5: with write_scaler < 44100 the frame just written holds, in the left
\* and in the right lane, the chip sample of its window that lies farthest
\* from the midpoint 8192.
C5_PeakPreserved ==
    (m_writeScaler < VGM_SAMPLE_RATE /\ frames > 0 /\ ~m_sampleSumValid /\ win # << >>) =>
        /\ Peak(Left(m_sampleSum), [i \in 1..Len(win) |-> Left(win[i])])
        /\ Peak(Right(m_sampleSum), [i \in 1..Len(win) |-> Right(win[i])])

\* the register writes of a chip log, and those of a list of writes whose
\* command lies before offset off
WritesOf(log) == SelectSeq(log, LAMBDA w : w.op = "write")

Before(writes, off) == SelectSeq(writes, LAMBDA w : w.at < off)

\* the register writes the stream holds before the cursor, in byte order:
\* those of the first pass, then those of the pass from the loop point
WritesBeforeCursor ==
    IF m_loops = LoopsAtOpen(Image)
    THEN Before(FromStart.writes, m_dataPtr)
    ELSE FromStart.writes \o Before(FromLoop.writes, m_dataPtr)

\* a chip sample is pulled in this step
SamplePulled == m_samplesPlayed' = m_samplesPlayed + 1

\* C6: in a VGM session the writes dispatched to the chip are at every
\* moment exactly the write commands of the stream before the cursor, in
\* byte order, and a wait is pending only right after a wait command; a
\* sample is pulled only while a wait is pending, which in VGM playback was
\* set by the last command interpreted and in NSF playback by a play call
\* that has returned, and pulling a sample dispatches nothing.
C6_State ==
    (opened.as = "vgm" /\ FromStart.ok /\ pc # "crashed") =>
        /\ WritesOf(chipLog) = WritesBeforeCursor
        /\ m_waitSamples > 0 =>
              lastCmd.kind = "wait" /\ m_dataPtr = lastCmd.off + lastCmd.adv

C6_Step ==
    SamplePulled =>
        /\ pc = "pump" /\ m_waitSamples > 0
        /\ UNCHANGED << m_dataPtr, chipLog, trackOps, lastCmd >>
        /\ ~m_nsfHeader => lastCmd.kind = "wait"
        /\ m_nsfHeader => evt \in {"play", "sample"}

C6_WritesBeforeSamples == [](C6_State) /\ [][C6_Step]_vars

C6_Witness ==
    /\ opened.as = "vgm" /\ FromStart.ok /\ m_loops = 2
    /\ Len(chipLog) = 2 /\ evt = "sample" /\ m_waitSamples = 1

\* C7 as stated: with a non-zero duration samples_played never exceeds it.
C7_NeverExceeds == m_duration # 0 => m_samplesPlayed <= m_duration

\* the duration is non-zero and samples_played has reached it
CapReached == m_duration # 0 /\ m_samplesPlayed >= m_duration

\* C7 as amended: once samples_played >= d (d non-zero) a running decodePcm
\* call interprets no command and makes no play call, and the wait is not
\* set again: only the rest of the wait window already begun is played.
\* At the next command boundary the call returns the bytes decoded so far
\* and leaves the playback state as it is.
C7_CapAtBoundary ==
    [][ (Running /\ CapReached) =>
            /\ m_waitSamples' <= m_waitSamples
            /\ UNCHANGED << m_dataPtr, m_loops, chipLog, lastCmd >>
            /\ pc = "cmd" =>
                  /\ pc' = "idle" /\ why' = "cap" /\ ret' = decoded
                  /\ UNCHANGED << cursorVars, pumpVars >> ]_vars

C7_Witness ==
    /\ pc = "idle" /\ why = "cap" /\ ret = 4
    /\ m_duration # 0 /\ m_samplesPlayed > m_duration

\* C8: from write_counter = 0 and with write_scaler <= 44100 unchanged
\* during playback, after N chip ticks the frames emitted and the counter
\* account for N * write_scaler exactly, the counter staying below 44100:
\* the frames emitted are within one frame of N * write_scaler / 44100.  In
\* a VGM session N is samples_played.
C8_FramesFollowTicks ==
    m_writeScaler <= VGM_SAMPLE_RATE =>
        /\ frames * VGM_SAMPLE_RATE + m_writeCounter = ticks * m_writeScaler
        /\ m_writeCounter >= 0 /\ m_writeCounter < VGM_SAMPLE_RATE
        /\ frames * VGM_SAMPLE_RATE <= ticks * m_writeScaler
        /\ ticks * m_writeScaler < (frames + 1) * VGM_SAMPLE_RATE
        /\ opened.as = "vgm" => m_samplesPlayed = ticks

C8_Witness ==
    /\ opened.as = "vgm" /\ m_writeScaler = 32000
    /\ m_samplesPlayed = 3 /\ frames = 2 /\ m_writeCounter = 7800

\* C9: a decodePcm call has written the bytes 0 .. decoded-1 of the
\* buffer, decoded a multiple of 4 and at most maxSize, and returns
\* decoded; a call with maxSize < 4 returns 0 at once and leaves the
\* playback state as it is.
C9_State ==
    /\ decoded >= 0 /\ decoded % 4 = 0 /\ decoded <= maxSize
    /\ hiWrite = decoded - 1 /\ hiWrite < maxSize
    /\ pc = "idle" => ret = decoded

C9_Step ==
    (pc = "loop" /\ maxSize < 4) =>
        /\ pc' = "idle" /\ ret' = 0
        /\ UNCHANGED << sessionVars, cursorVars, configVars, pumpVars >>

C9_WholeFramesInBuffer == [](C9_State) /\ [][C9_Step]_vars

C9_Witness ==
    /\ pc = "idle" /\ why = "full" /\ maxSize = MaxBuf
    /\ ret = 8 /\ hiWrite = 7

\* the command bytes no case of the switch in nextCommand takes
UnknownBytes ==
    (0..\H2F) \cup {\H60, \H64, \H65} \cup (\H69..\H6F) \cup (\H96..\H9F)

\* C10: when the command byte at the cursor is in no handled or reserved
\* range, the step ends the decodePcm call, which returns the bytes written
\* in this call; cursor, wait_samples and samples_played stay as they are.
C10_UnknownStops ==
    [][ (pc = "cmd" /\ m_header /\ ~CapReached /\ Mapped(m_dataPtr)
            /\ At(Images[m_rawData], m_dataPtr) \in UnknownBytes) =>
            /\ pc' = "idle" /\ why' = "unknown" /\ ret' = decoded
            /\ UNCHANGED << m_dataPtr, m_waitSamples, m_samplesPlayed, m_loops,
                            chipLog, decoded >> ]_vars

C10_Witness ==
    /\ pc = "idle" /\ why = "unknown" /\ ret = 4
    /\ lastCmd.cmd \in UnknownBytes /\ ~lastCmd.ok /\ m_dataPtr = lastCmd.off

\* decodeNfsPcm is about to call the play routine
PlayCalled == pc = "cmd" /\ m_nsfHeader /\ m_nesChip /\ ~CapReached

\* C11: when the play call of an NSF session returns a negative result or
\* zero, the decodePcm call ends with that step: it returns the bytes
\* written so far, no sample is pulled, wait_samples stays 0 and the frames
\* written and the rate converter are as they were.
C11_FailedPlayStops ==
    [][ (PlayCalled /\ evt' \in {"playFault", "playCap"}) =>
            /\ pc' = "idle" /\ ret' = decoded
            /\ m_waitSamples = 0 /\ m_waitSamples' = 0
            /\ UNCHANGED << pumpVars, decoded, hiWrite >> ]_vars

C11_Witness ==
    /\ opened.as = "nsf" /\ pc = "idle" /\ evt = "playCap" /\ why = "runaway"
    /\ ret = 4 /\ m_waitSamples = 0 /\ frames > 0

\* trackOps holds the calls of the last setTrack on the open NSF image
TrackDone == m_nsfHeader /\ m_nesChip /\ m_rawData # 0 /\ trackOps # << >>

\* the calls of the last setTrack before its last call, and that call
BeforeInit == SubSeq(trackOps, 1, Len(trackOps) - 1)

InitCall == trackOps[Len(trackOps)]

\* C12: when the bank_switch table of the NSF has a non-zero entry, setTrack
\* (also the one open makes) issues exactly the eight writes
\* $5FF8+i <- bank_switch[i], i = 0..7 in increasing i, and all of them
\* before it calls the init routine.
C12_BankWritesBeforeInit ==
    (TrackDone /\ \E i \in 0..7 : bankSwitch(Images[m_rawData])[i] # 0) =>
        /\ InitCall.op = "callSubroutine"
        /\ InitCall.addr = initAddress(Images[m_rawData])
        /\ WritesOf(BeforeInit) =
              [i \in 1..8 |-> [op |-> "write", addr |-> \H5FF8 + i - 1,
                               last |-> \H5FF8 + i - 1,
                               val |-> At(Images[m_rawData], \H70 + i - 1),
                               at |-> -1]]

C12_Witness ==
    /\ TrackDone /\ opened.as = "nsf" /\ evt = "init"
    /\ bankSwitch(Images[m_rawData])[7] = 7
    /\ Len(WritesOf(trackOps)) = 8

\* C13: when open makes an NSF session, the init routine was called with
\* cpu.a as setTrack(starting_song) sets it (the starting song counted
\* from 0 or, as the NSF header counts it, from 1).
C13_OpenStartsStartingSong ==
    [][ (opened' # opened /\ opened'.as = "nsf") =>
            LET img == Images[opened'.id]
                call == trackOps'[Len(trackOps')]
            IN /\ call.op = "callSubroutine"
               /\ call.addr = initAddress(img)
               /\ \/ call.regs.a = TrackRegister(img, startSong(img))
                  \/ call.regs.a = TrackRegister(img, startSong(img) - 1) ]_vars

\* the stream from offset off holds wait commands only, up to a 0x66 that
\* lies inside the image
RECURSIVE WaitsOnly(_, _)
WaitsOnly(img, off) ==
    IF off < 0 \/ off >= Len(img) THEN FALSE
    ELSE LET cmd == At(img, off) IN
         IF cmd = \H66 THEN TRUE
         ELSE IF cmd \in {\H61, \H62, \H63} \/ InRange(cmd, \H70, \H7F)
         THEN WaitsOnly(img, off + (IF cmd = \H61 THEN 3 ELSE 1))
         ELSE FALSE

\* a VGM session that declares no chip and whose stream is waits and 0x66
SilentSession ==
    /\ opened.as = "vgm"
    /\ ay8910Clock(Image) = 0 /\ nesApuClock(Image) = 0
    /\ WaitsOnly(Image, VgmDataStart(Image))

\* C14 as stated: in a session without a chip whose stream is waits and
\* 0x66, every decodePcm call returns 0 bytes.
C14_SilentReturnsNothing == (SilentSession /\ pc = "idle") => ret = 0

\* C14 as amended: in such a session every chip tick merges the sample 0,
\* so every frame decodePcm writes is 0 in both lanes; the frames are
\* written and counted as in any other session, one per 44100 units of the
\* rate counter, and the call returns their bytes.
C14_SilentFramesAreZero ==
    SilentSession =>
        /\ m_sampleSum = 0
        /\ \A i \in 1..Len(win) : win[i] = 0
        /\ frames * VGM_SAMPLE_RATE + m_writeCounter = ticks * m_writeScaler
        /\ (pc = "idle" /\ why = "end") =>
              /\ m_samplesPlayed = FromStart.samples
              /\ ret = decoded /\ ret = hiWrite + 1

C14_Witness ==
    /\ SilentSession /\ pc = "idle" /\ why = "end"
    /\ ret = 4 /\ frames = 2 /\ m_sampleSum = 0 /\ win = << 0 >>

\* C15: with write_scaler = 44100 and the rate counter started at 0, every
\* chip tick writes one frame (the counter is back at 0 and the accumulator
\* released after every tick) and the frame is the sample the chip
\* returned for that tick, merged with no other.
C15_ExactAtNativeRate ==
    m_writeScaler = VGM_SAMPLE_RATE =>
        /\ frames = ticks
        /\ m_writeCounter = 0
        /\ ~m_sampleSumValid
        /\ ticks > 0 => win = << m_sampleSum >>

C15_Witness ==
    /\ m_writeScaler = VGM_SAMPLE_RATE /\ m_msxChip
    /\ ticks = 3 /\ frames = 3 /\ win = << Pack(100, 9000) >>
    /\ m_sampleSum = Pack(100, 9000)

\* entry k of the calls before init writes val to every address lo .. hi
Sets(k, lo, hi, val) ==
    /\ BeforeInit[k].op = "setData" /\ BeforeInit[k].val = val
    /\ BeforeInit[k].addr <= lo /\ BeforeInit[k].last >= hi

\* C16: by the time setTrack calls the init routine every address
\* $0000..$07FF and $4000..$4013 has been written with 0, and after that
\* $4015 was written 0x00, then 0x0F, then $4017 was written 0x40.
C16_MemoryClearedBeforeInit ==
    TrackDone =>
        /\ InitCall.op = "callSubroutine"
        /\ \E r \in 1..Len(BeforeInit) :
              /\ Sets(r, 0, \H07FF, 0)
              /\ \E a \in 1..Len(BeforeInit) :
                    /\ Sets(a, \H4000, \H4013, 0)
                    /\ \E i \in 1..Len(BeforeInit) :
                          /\ r < i /\ a < i /\ Sets(i, \H4015, \H4015, 0)
                          /\ \E j \in 1..Len(BeforeInit) :
                                /\ i < j /\ Sets(j, \H4015, \H4015, \H0F)
                                /\ \E k \in 1..Len(BeforeInit) :
                                      j < k /\ Sets(k, \H4017, \H4017, \H40)

\* C17: whatever the track argument, when setTrack calls the init routine
\* of an NSF with song_count >= 1, cpu.a is a track index 0 ..
\* song_count - 1, cpu.x = 0 and cpu.sp = 0xEF.
C17_InitRegisters ==
    (TrackDone /\ songIndex(Images[m_rawData]) >= 1) =>
        /\ InitCall.op = "callSubroutine"
        /\ InitCall.regs.a \in 0..(songIndex(Images[m_rawData]) - 1)
        /\ InitCall.regs.x = 0
        /\ InitCall.regs.sp = \HEF

\* the wait window of the NSF session: floor(44100 * ntsc_play_speed / 10^6)
Window == (44100 * ntscPlaySpeed(Images[m_rawData])) \div 1000000

\* decodeNfsPcm stands where wait_samples is 0 and the buffer has room
AtPlayPoint == m_nsfHeader /\ m_nesChip /\ pc = "cmd"

\* in an NSF session: the command position is reached only with
\* wait_samples = 0 and room in the buffer, and the samples pulled since
\* open plus those still to pull are whole windows
C18_State ==
    (opened.as = "nsf" /\ pc # "crashed") =>
        /\ pc = "cmd" => (m_waitSamples = 0 /\ decoded + 4 <= maxSize)
        /\ m_waitSamples >= 0 /\ m_waitSamples <= Window
        /\ IF Window = 0 THEN ticks = 0 ELSE (ticks + m_waitSamples) % Window = 0

\* in an NSF session the wait is set only by a play call that succeeded,
\* made at wait_samples = 0 with room in the buffer, and it is set to the
\* window
C18_Step ==
    (m_nsfHeader /\ m_nesChip) =>
        /\ m_waitSamples' > m_waitSamples =>
              (pc = "cmd" /\ m_waitSamples = 0 /\ evt' = "play")
        /\ (pc = "cmd" /\ evt' = "play") => m_waitSamples' = Window

\* C18 as stated: the play routine is called exactly when wait_samples is 0
\* and the buffer has room; a successful call sets wait_samples to
\* floor(44100 * ntsc_play_speed / 1000000), and that many samples are
\* pulled before the next play call, over however many decodePcm calls.
C18_PlayWheneverWaitZero ==
    [](C18_State)
        /\ [][C18_Step /\ (AtPlayPoint => evt' \in {"play", "playFault", "playCap"})]_vars

\* C18 as amended: as stated, except that at wait_samples = 0 with room
\* in the buffer the play routine is called only while the duration cap is
\* not reached.
C18_PlayCadence ==
    [](C18_State)
        /\ [][C18_Step
               /\ ((AtPlayPoint /\ ~CapReached) =>
                      evt' \in {"play", "playFault", "playCap"})
               /\ ((AtPlayPoint /\ CapReached) =>
                      (pc' = "idle" /\ UNCHANGED << evt, m_waitSamples >>))]_vars

C18_Witness ==
    /\ opened.as = "nsf" /\ pc = "pump" /\ evt = "play"
    /\ Window = 22 /\ ticks = 22 /\ m_waitSamples = 22 /\ decoded = 4

\* nextCommand runs on the command byte at the cursor and the step does
\* not fault
CommandRuns ==
    /\ pc = "cmd" /\ m_header /\ ~m_nsfHeader /\ ~CapReached
    /\ Mapped(m_dataPtr) /\ pc' # "crashed"

C20_RngNeverZeroIn17Bits == m_msxChip => (m_rng # 0 /\ m_rng < 131072)

\* the generator after 100000 ticks
C20_Witness == m_msxChip /\ m_rng = 31358

(***************************************************************************)
(* One decodePcm call on a session fresh from open, as a function of the   *)
(* number of frames its buffer holds.  The playback state is a record;     *)
(* why tells how the call ended ("lost": a read outside the image or a     *)
(* write to an absent chip; "hang": the call does not return).             *)
(***************************************************************************)
PlayState(ptr, wait, loops) ==
    [ptr |-> ptr, wait |-> wait, loops |-> loops, played |-> 0, counter |-> 0,
     valid |-> FALSE, frames |-> 0, why |-> "none"]

\* one round of the pump loop
PumpOnce(s) ==
    LET counter == s.counter + m_writeScaler IN
    [s EXCEPT !.played = s.played + 1, !.wait = s.wait - 1,
              !.counter = IF FrameDue(counter) THEN AfterFrame(counter) ELSE counter,
              !.valid = ~FrameDue(counter),
              !.frames = IF FrameDue(counter) THEN s.frames + 1 ELSE s.frames]

RECURSIVE VgmOneCall(_, _)
VgmOneCall(s, room) ==
    LET img == Images[m_rawData] IN
    IF s.frames >= room THEN [s EXCEPT !.why = "full"]
    ELSE IF s.wait # 0 THEN VgmOneCall(PumpOnce(s), room)
    ELSE IF DurationReached(m_duration, s.played) THEN [s EXCEPT !.why = "cap"]
    ELSE IF s.ptr < 0 \/ s.ptr >= Len(img) THEN [s EXCEPT !.why = "lost"]
    ELSE LET cmd == At(img, s.ptr) IN
         IF \/ s.ptr + OperandsRead(cmd) >= Len(img)
            \/ cmd = \HA0 /\ ~m_msxChip
            \/ cmd = \HB4 /\ ~m_nesChip
         THEN [s EXCEPT !.why = "lost"]
         ELSE LET b == [i \in 1..6 |->
                           IF i <= OperandsRead(cmd) THEN At(img, s.ptr + i) ELSE 0]
                  r == nextCommand(cmd, b, s.ptr, s.wait, m_loopOffset, s.loops)
              IN  IF ~r.ok THEN [s EXCEPT !.why = r.kind]
                  ELSE IF r.ptr = s.ptr /\ r.wait = 0 /\ r.loops = s.loops
                  THEN [s EXCEPT !.why = "hang"]
                  ELSE VgmOneCall([s EXCEPT !.ptr = r.ptr, !.wait = r.wait,
                                            !.loops = r.loops], room)

\* the same for an NSF session whose play calls succeed
RECURSIVE NsfOneCall(_, _)
NsfOneCall(s, room) ==
    LET wait == (VGM_SAMPLE_RATE * ntscPlaySpeed(Images[m_rawData])) \div 1000000 IN
    IF s.frames >= room THEN [s EXCEPT !.why = "full"]
    ELSE IF s.wait # 0 THEN NsfOneCall(PumpOnce(s), room)
    ELSE IF DurationReached(m_duration, s.played) THEN [s EXCEPT !.why = "cap"]
    ELSE IF wait = 0 THEN [s EXCEPT !.why = "hang"]
    ELSE NsfOneCall([s EXCEPT !.wait = wait], room)

\* the playback state of the engine
PlayStateNow ==
    [ptr |-> m_dataPtr, wait |-> m_waitSamples, loops |-> m_loops,
     played |-> m_samplesPlayed, counter |-> m_writeCounter,
     valid |-> m_sampleSumValid, frames |-> frames, why |-> why]

\* the one call the calls made so far are a splitting of: its buffer holds
\* the frames written so far when the last call ended on a full buffer,
\* and one frame more when it ended for another reason
OneCall ==
    LET room == IF why = "full" THEN frames ELSE frames + 1 IN
    IF m_nsfHeader
    THEN NsfOneCall(PlayState(0, 0, m_loops), room)
    ELSE VgmOneCall(PlayState(VgmDataStart(Images[m_rawData]), 0,
                              LoopsAtOpen(Images[m_rawData])), room)

\* the accumulator after the samples of w were merged into it one by one
RECURSIVE MergedWindow(_, _)
MergedWindow(w, k) ==
    IF k = 0 THEN 0
    ELSE interpolateSample(w[k], MergedWindow(w, k - 1), k > 1)

\* a session that played from its open on, between two calls, the last of
\* which had a buffer of at least 4 bytes and returned from the loop
Chunked ==
    /\ pc = "idle" /\ opened.as \in {"vgm", "nsf"} /\ m_rawData = opened.id
    /\ maxSize >= 4 /\ m_samplesPlayed = ticks
    /\ why \in (IF m_nsfHeader THEN {"full", "cap"}
                ELSE {"full", "cap", "end", "unknown"})

\* C21: however the output was split over decodePcm calls with buffers of
\* at least 4 bytes, the session is in the state one call with one large
\* buffer leaves it in: the same number of frames written for the same chip
\* samples, the same cursor, wait_samples, samples_played, loops and
\* write_counter, and an accumulator that holds the merge of the samples of
\* its window.
C21_ChunkingInvariance ==
    (Chunked /\ OneCall.why # "lost") =>
        /\ PlayStateNow = OneCall
        /\ m_sampleSum = MergedWindow(win, Len(win))

\* a wait of three samples split over two calls
C21_Witness ==
    /\ Chunked /\ m_header /\ why = "full" /\ maxSize = 4
    /\ frames = 2 /\ m_waitSamples = 1 /\ m_writeScaler = VGM_SAMPLE_RATE
    /\ PlayStateNow = OneCall

\* getTrackCount(): the song count of the NSF header, 1 without one
getTrackCount == IF m_nsfHeader THEN songIndex(Images[m_rawData]) ELSE 1

\* C22: after an open that returned false the engine holds no session:
\* both header pointers are null and there is no chip, so getTrackCount
\* returns 1, setTrack returns false and decodePcm finds no NSF header that
\* would send it to an absent chip.
C22_FailedOpenLeavesNothing ==
    opened.as = "failed" =>
        /\ ~m_header /\ ~m_nsfHeader
        /\ ~m_msxChip /\ ~m_nesChip
        /\ getTrackCount = 1

\* nextCommand is about to run on a register write, read whole from the
\* image, for a chip the session does not have
AbsentChipWrite ==
    /\ pc = "cmd" /\ m_header /\ ~m_nsfHeader /\ ~CapReached
    /\ Mapped(m_dataPtr) /\ Mapped(m_dataPtr + 2)
    /\ \/ At(Images[m_rawData], m_dataPtr) = \HA0 /\ ~m_msxChip
       \/ At(Images[m_rawData], m_dataPtr) = \HB4 /\ ~m_nesChip

\* C23: a VGM session has at most one chip, the one its header declares,
\* and a register write (0xA0, 0xB4) for the chip it does not have reaches
\* no chip and only moves the cursor on by 3.
C23_AbsentChipSkipped ==
    [](~(m_msxChip /\ m_nesChip))
        /\ [][ AbsentChipWrite =>
                 /\ pc' = "cmd"
                 /\ m_dataPtr' = m_dataPtr + 3
                 /\ UNCHANGED << chipLog, m_waitSamples, m_loops, pumpVars >> ]_vars

VgmSession == m_header /\ ~m_nsfHeader /\ opened.as = "vgm"

\* the stream of the session is over: no wait is pending, and the cap is
\* reached or the cursor is on a final 0x66 or on an unknown command of the
\* image
AtEnd ==
    /\ VgmSession /\ pc # "crashed" /\ m_waitSamples = 0
    /\ \/ CapReached
       \/ /\ Mapped(m_dataPtr)
          /\ \/ /\ At(Images[m_rawData], m_dataPtr) = \H66
                /\ ~(m_loopOffset # 0 /\ m_loops # 1)
             \/ At(Images[m_rawData], m_dataPtr) \in UnknownBytes

\* the session goes on with its duration unchanged
SessionGoesOn == m_header' /\ opened' = opened /\ m_duration' = m_duration

\* C24: in a VGM session loops is 1 or 2 and never increases, and the end
\* of the stream is absorbing: once a decodePcm call returned for a final
\* 0x66, an unknown command or the duration cap, the stream is over, and
\* with the duration unchanged every later decodePcm call returns 0 and
\* leaves the cursor, loops, wait_samples and samples_played as they are.
C24_EndIsAbsorbing ==
    /\ [](VgmSession => m_loops \in {1, 2})
    /\ []((VgmSession /\ pc = "idle" /\ why \in {"end", "unknown", "cap"}
             /\ (why = "cap" \/ Mapped(m_dataPtr))) => AtEnd)
    /\ [][ (VgmSession /\ SessionGoesOn) => m_loops' <= m_loops ]_vars
    /\ [][ (AtEnd /\ SessionGoesOn) =>
              /\ AtEnd'
              /\ UNCHANGED << m_dataPtr, m_loops, m_waitSamples, m_samplesPlayed,
                              frames >>
              /\ (pc = "idle" /\ pc' # "idle") => decoded' = 0
              /\ pc # "idle" => (decoded' = decoded /\ (pc' = "idle" => ret' = decoded)) ]_vars

\* a looped stream played to its end, and a later call that returned 0
C24_Witness ==
    /\ AtEnd /\ pc = "idle" /\ why = "end" /\ ret = 0 /\ maxSize >= 4
    /\ frames >= 2 /\ m_loops = 1 /\ m_loopOffset # 0

====
